---- MODULE Spec2Model ----
(***************************************************************************)
(* The Terminal widget of src/src/terminal-001/index.js as a state         *)
(* machine.  Strings are sequences of one-character tokens; a token that   *)
(* is longer than one character ("nbsp", "bullet", "toString", ...)        *)
(* stands for that character or for that run of non-blank characters.      *)
(* The host calls the public methods one at a time (single-threaded);      *)
(* a registered callback runs as a frame of the call stack, one            *)
(* instruction per step, so that what holds "when the callback starts"     *)
(* and "during a nested dispatch" is a state of the model.                 *)
(***************************************************************************)
EXTENDS Naturals, Sequences, FiniteSets, TLC

VARIABLES
    textarea,   \* this.textarea.value
    height,     \* this.textarea.style.height, in rows; 0 is "not set"
    gutter,     \* this.gutter.textContent
    outputs,    \* children of this.outputs: <<[text, flavour]>>
    scrollTop,  \* this.monitor.scrollTop, in output entries
    hidden,     \* this.element.classList.contains('hidden')
    commands,   \* own properties of this.commands: name -> callback
    proto,      \* prototype of this.commands
    stack,      \* JavaScript call stack: frames of running callbacks
    outcome,    \* how the last completed processCommand call ended
    toggled,    \* what the last toggle call returned: <<>> before any call
    focused,    \* this.textarea is the document's active element
    structures, \* number of terminal structures appended under this.parent
    bound,      \* the structure this.element, this.textarea, ... belong to
    event,      \* the keyboard or input event the host last handled
    pending     \* what the host's keydown listener still has to do

vars == <<textarea, height, gutter, outputs, scrollTop, hidden,
          commands, proto, stack, outcome,
          toggled, focused, structures, bound, event, pending>>

\* what the widget's own methods never touch: the host's side
host == <<event, pending>>
\* the mount point
mount == <<structures, bound>>

---------------------------------------------------------------------------
\* Bounds of the model

MaxLen == 2      \* longest text typed into / set on the textarea
MaxLog == 6      \* most entries the Output Log holds
MaxDepth == 3    \* deepest nesting of callbacks
MaxBacklog == 1  \* most entries in the log when the host echoes or dispatches
MaxMounts == 3   \* most structures init appends under one parent

---------------------------------------------------------------------------
\* Characters and strings

NBSP == "nbsp"            \* U+00A0
BULLET == "bullet"        \* U+2022
NL == "\n"

\* String.prototype.trim strips WhiteSpace and LineTerminator; U+00A0 is WhiteSpace
WhiteSpace == {" ", NL, NBSP}

Chars == {"a", NL}

RECURSIVE StrsOfLen(_)
StrsOfLen(n) ==
    IF n = 0 THEN {<<>>}
    ELSE {Append(s, c) : s \in StrsOfLen(n - 1), c \in Chars}

Strs == UNION {StrsOfLen(n) : n \in 0..MaxLen}

\* `undefined`, where a string is expected (an absent argument, no return value)
Undefined == <<"undefined">>

\* text.trim() === ''
TrimIsEmpty(text) == \A i \in 1..Len(text) : text[i] \in WhiteSpace

\* value.split('\n'): the segments between line breaks
RECURSIVE Split(_)
Split(value) ==
    IF \A i \in 1..Len(value) : value[i] # NL THEN <<value>>
    ELSE LET k == CHOOSE i \in 1..Len(value) :
                      value[i] = NL /\ \A j \in 1..(i - 1) : value[j] # NL
         IN <<SubSeq(value, 1, k - 1)>> \o Split(SubSeq(value, k + 1, Len(value)))

\* '...'.repeat(n)
RECURSIVE Repeat(_, _)
Repeat(s, n) == IF n = 0 THEN <<>> ELSE s \o Repeat(s, n - 1)

---------------------------------------------------------------------------
\* _inject: the markup appended under the parent

InjectedGutter == <<"$", NBSP, NBSP>>

\* faulty variant of GutterLines: a trailing line break opens no line
GutterLines_NoTrailing(value) ==
    IF value = <<>> THEN 1
    ELSE IF value[Len(value)] = NL THEN Len(Split(value)) - 1 ELSE Len(Split(value))

\* autoResizeGutter: the gutter text for a textarea value
GutterLines(value) == IF value = <<>> THEN 1 ELSE Len(Split(value))

\* faulty variant of GutterText: every line gets the prompt marker
GutterText_AllPrompt(value) == Repeat(<<"$", " ", " ", NL>>, GutterLines(value))

GutterText(value) ==
    <<"$", " ", " ", NL>> \o Repeat(<<BULLET, " ", " ", NL>>, GutterLines(value) - 1)

\* autoResizeTextarea: textarea.scrollHeight after the collapse to 0px, in rows
\* (one row per line of the value, the textarea has rows="1")
ScrollHeight(value) == Len(Split(value))

\* the markers of a gutter text, in order
RECURSIVE Markers(_)
Markers(g) ==
    IF g = <<>> THEN <<>>
    ELSE (IF Head(g) \in {"$", BULLET} THEN <<Head(g)>> ELSE <<>>) \o Markers(Tail(g))

---------------------------------------------------------------------------
\* echo

Prompt == <<"$", " ", " ">>

\* faulty variant of EchoText: blank text is rendered as it is
EchoText_Raw(text, prefixed) ==
    LET t == IF text = Undefined THEN <<>> ELSE text
    IN IF prefixed THEN Prompt \o t ELSE t

\* the text of the entry echo(text, {prefixed}) appends
EchoText(text, prefixed) ==
    LET t == IF text = Undefined \/ text = <<>> \/ TrimIsEmpty(text)
             THEN <<NBSP>> ELSE text
    IN IF prefixed THEN Prompt \o t ELSE t

\* faulty variant of EchoOutputs: the entry is put first (prepend for appendChild)
EchoOutputs_Prepend(outs, text, flavour, prefixed) ==
    <<[text |-> EchoText(text, prefixed), flavour |-> flavour]>> \o outs

\* this.outputs after echo(text, {flavour, prefixed})
EchoOutputs(outs, text, flavour, prefixed) ==
    Append(outs, [text |-> EchoText(text, prefixed), flavour |-> flavour])

\* this.monitor.scrollTop after echo's optional scrollToMonitorBottom
EchoScroll(outs, top, scrolling) == IF scrolling THEN Len(outs) ELSE top

---------------------------------------------------------------------------
\* The command registry: this.commands = {} is an ordinary object, so a
\* lookup this.commands[name] that finds no own property goes on to the
\* prototype chain.

ToStringName == <<"toString">>
ProtoName == <<"__proto__">>

ObjectPrototype == "Object.prototype"

Callbacks == {"ping", "say", "nest", "deep", "clear", "fill"}

\* values a property lookup yields
UndefinedValue == [kind |-> "undefined", id |-> "undefined"]
CallbackValue(cb) == [kind |-> "callback", id |-> cb]
BuiltinValue(id) == [kind |-> "builtin", id |-> id]
ObjectValue(id) == [kind |-> "object", id |-> id]

\* this.commands[name], [[Get]]: own property, else the prototype chain
\* ({} -> Object.prototype, or -> f -> Function.prototype -> Object.prototype
\* once __proto__ was assigned a function f)
GetProperty(own, pr, name) ==
    IF name \in DOMAIN own THEN CallbackValue(own[name])
    ELSE IF name = ProtoName
         THEN IF pr = ObjectPrototype THEN ObjectValue(ObjectPrototype)
              ELSE CallbackValue(pr)
    ELSE IF name = ToStringName
         THEN IF pr = ObjectPrototype THEN BuiltinValue("Object.prototype.toString")
              ELSE BuiltinValue("Function.prototype.toString")
    ELSE UndefinedValue

\* this.commands[name] = command, [[Set]]: the __proto__ accessor of
\* Object.prototype sets the prototype, any other name an own property
SetOwn(own, name, command) ==
    IF name = ProtoName THEN own
    ELSE [n \in DOMAIN own \cup {name} |-> IF n = name THEN command ELSE own[n]]

SetProto(pr, name, command) == IF name = ProtoName THEN command ELSE pr

\* faulty variant of AssignOwn: this.commands = mapping, the registry replaced
AssignOwn_Replace(own, mapping, keys) ==
    [n \in keys \ {ProtoName} |-> mapping[n]]

\* Object.assign(this.commands, mapping): one [[Set]] per own key of mapping
RECURSIVE AssignOwn(_, _, _)
AssignOwn(own, mapping, keys) ==
    IF keys = {} THEN own
    ELSE LET k == CHOOSE x \in keys : TRUE
         IN AssignOwn(SetOwn(own, k, mapping[k]), mapping, keys \ {k})

RECURSIVE AssignProto(_, _, _)
AssignProto(pr, mapping, keys) ==
    IF keys = {} THEN pr
    ELSE LET k == CHOOSE x \in keys : TRUE
         IN AssignProto(SetProto(pr, k, mapping[k]), mapping, keys \ {k})

\* if (command)
Truthy(v) == v.kind # "undefined"

---------------------------------------------------------------------------
\* Callbacks the embedding application registers.  A callback is a script of
\* calls on the terminal and a return value.

Pong == <<"p", "o", "n", "g">>

EchoCall(text, flavour) ==
    [op |-> "echo", text |-> text, flavour |-> flavour,
     scrolling |-> TRUE, prefixed |-> FALSE]
DispatchCall(name) ==
    [op |-> "processCommand", name |-> name, echoing |-> TRUE, clearing |-> TRUE]
ClearOutputsCall == [op |-> "clearOutputs"]
SetTextCall(text) == [op |-> "setText", text |-> text]

Script(cb) ==
    CASE cb = "ping" -> <<>>
      [] cb = "say" -> <<EchoCall(<<"x">>, "info")>>
      [] cb = "nest" -> <<EchoCall(<<"p">>, "log"), DispatchCall(<<"a">>),
                          EchoCall(<<"q">>, "warn")>>
      [] cb = "deep" -> <<DispatchCall(<<"b">>)>>
      [] cb = "clear" -> <<ClearOutputsCall>>
      [] cb = "fill" -> <<SetTextCall(<<"a", NL>>)>>

ReturnOf(cb) ==
    CASE cb = "ping" -> Pong
      [] cb = "nest" -> <<"n">>
      [] OTHER -> Undefined

---------------------------------------------------------------------------
\* Events the host page listens to (src/test/cdn/index.js): a keydown carries
\* its key and the modifier keys held (event.shiftKey, event.ctrlKey, ...)

KeyEvent(key, mods) == [type |-> "keydown", key |-> key, mods |-> mods]
InputEvent == [type |-> "input", key |-> "", mods |-> {}]
NoEvent == [type |-> "load", key |-> "", mods |-> {}]

---------------------------------------------------------------------------
\* State after `new Terminal()` and init(parent) on an empty parent

Init ==
    /\ textarea = <<>>
    /\ height = 0
    /\ gutter = InjectedGutter
    /\ outputs = <<>>
    /\ scrollTop = 0
    /\ hidden = FALSE
    /\ commands = <<>>
    /\ proto = ObjectPrototype
    /\ stack = <<>>
    /\ outcome = [kind |-> "none", name |-> <<>>, cb |-> "none", value |-> Undefined]
    /\ toggled = <<>>
    /\ focused = FALSE
    /\ structures = 1
    /\ bound = 1
    /\ event = NoEvent
    /\ pending = "none"

\* the host's event handlers run to completion: the host calls a method only
\* when no callback is running
Idle == stack = <<>>

Returned(name, cb, value) ==
    [kind |-> "return", name |-> name, cb |-> cb, value |-> value]
Threw(name) ==
    [kind |-> "throw", name |-> name, cb |-> "none", value |-> Undefined]

---------------------------------------------------------------------------
\* Methods that do not dispatch, as the host calls them

updateCommands(mapping) ==
    /\ Idle
    /\ commands' = AssignOwn(commands, mapping, DOMAIN mapping)
    /\ proto' = AssignProto(proto, mapping, DOMAIN mapping)
    /\ UNCHANGED <<textarea, height, gutter, outputs, scrollTop, hidden, stack, outcome>>
    /\ UNCHANGED <<toggled, focused, mount, host>>

addCommand(name, command) ==
    /\ Idle
    /\ commands' = SetOwn(commands, name, command)
    /\ proto' = SetProto(proto, name, command)
    /\ UNCHANGED <<textarea, height, gutter, outputs, scrollTop, hidden, stack, outcome>>
    /\ UNCHANGED <<toggled, focused, mount, host>>

echo(text, flavour, scrolling, prefixed) ==
    /\ Idle
    /\ Len(outputs) < MaxLog
    /\ outputs' = EchoOutputs(outputs, text, flavour, prefixed)
    /\ scrollTop' = EchoScroll(outputs', scrollTop, scrolling)
    /\ UNCHANGED <<textarea, height, gutter, hidden, commands, proto, stack, outcome>>
    /\ UNCHANGED <<toggled, focused, mount, host>>

scrollToMonitorBottom ==
    /\ Idle
    /\ scrollTop' = Len(outputs)
    /\ UNCHANGED <<textarea, height, gutter, outputs, hidden, commands, proto, stack, outcome>>
    /\ UNCHANGED <<toggled, focused, mount, host>>

\* faulty variant of setText: the textarea and the gutter are resized to the text
setText_Resizing(text) ==
    /\ Idle
    /\ textarea' = text
    /\ height' = ScrollHeight(text)
    /\ gutter' = GutterText(text)
    /\ UNCHANGED <<outputs, scrollTop, hidden, commands, proto, stack, outcome>>
    /\ UNCHANGED <<toggled, focused, mount, host>>

setText(text) ==
    /\ Idle
    /\ textarea' = text
    /\ UNCHANGED <<height, gutter, outputs, scrollTop, hidden, commands, proto, stack, outcome>>
    /\ UNCHANGED <<toggled, focused, mount, host>>

\* faulty variant of ClearText: setText('') without autoResizeAll()
ClearText_NoResize(value, h, g) ==
    [textarea |-> <<>>, height |-> h, gutter |-> g]

\* the textarea, its height and the gutter after clearText():
\* setText('') then autoResizeAll()
ClearText(value, h, g) ==
    [textarea |-> <<>>, height |-> ScrollHeight(<<>>), gutter |-> GutterText(<<>>)]

\* faulty variant of clearText: the registry is reset with the buffer
clearText_Reset ==
    /\ Idle
    /\ textarea' = ClearText(textarea, height, gutter).textarea
    /\ height' = ClearText(textarea, height, gutter).height
    /\ gutter' = ClearText(textarea, height, gutter).gutter
    /\ commands' = <<>>
    /\ proto' = ObjectPrototype
    /\ UNCHANGED <<outputs, scrollTop, hidden, stack, outcome>>
    /\ UNCHANGED <<toggled, focused, mount, host>>

clearText ==
    /\ Idle
    /\ textarea' = ClearText(textarea, height, gutter).textarea
    /\ height' = ClearText(textarea, height, gutter).height
    /\ gutter' = ClearText(textarea, height, gutter).gutter
    /\ UNCHANGED <<outputs, scrollTop, hidden, commands, proto, stack, outcome>>
    /\ UNCHANGED <<toggled, focused, mount, host>>

\* faulty variant of clearOutputs: the oldest entry is removed, not all of them
clearOutputs_DropFirst ==
    /\ Idle
    /\ outputs' = IF outputs = <<>> THEN outputs ELSE Tail(outputs)
    /\ scrollTop' = 0
    /\ UNCHANGED <<textarea, height, gutter, hidden, commands, proto, stack, outcome>>
    /\ UNCHANGED <<toggled, focused, mount, host>>

clearOutputs ==
    /\ Idle
    /\ outputs' = <<>>
    /\ scrollTop' = 0
    /\ UNCHANGED <<textarea, height, gutter, hidden, commands, proto, stack, outcome>>
    /\ UNCHANGED <<toggled, focused, mount, host>>

autoResizeTextarea ==
    /\ Idle
    /\ height' = ScrollHeight(textarea)
    /\ UNCHANGED <<textarea, gutter, outputs, scrollTop, hidden, commands, proto, stack, outcome>>
    /\ UNCHANGED <<toggled, focused, mount, host>>

autoResizeGutter ==
    /\ Idle
    /\ gutter' = GutterText(textarea)
    /\ UNCHANGED <<textarea, height, outputs, scrollTop, hidden, commands, proto, stack, outcome>>
    /\ UNCHANGED <<toggled, focused, mount, host>>

autoResizeAll ==
    /\ Idle
    /\ height' = ScrollHeight(textarea)
    /\ gutter' = GutterText(textarea)
    /\ UNCHANGED <<textarea, outputs, scrollTop, hidden, commands, proto, stack, outcome>>
    /\ UNCHANGED <<toggled, focused, mount, host>>

\* classList.toggle('hidden', force): force is TRUE, FALSE or absent
Toggle(was, force) == IF force = "absent" THEN ~was ELSE force = "true"

\* faulty variant of ToggleReturn: the state before the call is returned
ToggleReturn_Previous(was, force) == was

\* what classList.toggle('hidden', force) returns (DOMTokenList.toggle): with
\* the token present, false after removing it (force absent or false), else
\* true; with the token absent, true after adding it (force absent or true),
\* else false
ToggleReturn(was, force) ==
    IF was THEN (IF force \in {"absent", "false"} THEN FALSE ELSE TRUE)
    ELSE (IF force \in {"absent", "true"} THEN TRUE ELSE FALSE)

toggle(force) ==
    /\ Idle
    /\ hidden' = Toggle(hidden, force)
    /\ toggled' = <<ToggleReturn(hidden, force)>>
    /\ UNCHANGED <<textarea, height, gutter, outputs, scrollTop, commands, proto, stack, outcome>>
    /\ UNCHANGED <<focused, mount, host>>

focus ==
    /\ Idle
    /\ focused' = TRUE
    /\ UNCHANGED <<textarea, height, gutter, outputs, scrollTop, hidden, commands, proto,
                   stack, outcome, toggled, mount, host>>

\* text.trim()
RECURSIVE Trim(_)
Trim(text) ==
    IF text = <<>> THEN text
    ELSE IF Head(text) \in WhiteSpace THEN Trim(Tail(text))
    ELSE IF text[Len(text)] \in WhiteSpace THEN Trim(SubSeq(text, 1, Len(text) - 1))
    ELSE text

\* text.toLowerCase(), token by token
LowerCase(text) ==
    [i \in 1..Len(text) |->
        CASE text[i] = "A" -> "a"
          [] text[i] = "toString" -> "tostring"
          [] OTHER -> text[i]]

\* getText(trimming, lowercase): what the call returns; it changes nothing
getText(trimming, lowercase) ==
    LET trimmed == IF trimming THEN Trim(textarea) ELSE textarea
    IN IF lowercase THEN LowerCase(trimmed) ELSE trimmed

---------------------------------------------------------------------------
\* init(parent) called again on the same parent: _inject appends one more
\* structure under it, and each handle is looked up under the parent

\* parent.querySelector(selector) with n structures under the parent: the
\* first match in document order
QuerySelector(n) == CHOOSE i \in 1..n : \A j \in 1..n : i <= j

\* the regions of a structure as _inject creates them
Injected ==
    [textarea |-> <<>>, height |-> 0, gutter |-> InjectedGutter,
     outputs |-> <<>>, scrollTop |-> 0, hidden |-> FALSE]

\* the regions of structure i: only the bound structure is ever written to
Regions(i) ==
    IF i = bound
    THEN [textarea |-> textarea, height |-> height, gutter |-> gutter,
          outputs |-> outputs, scrollTop |-> scrollTop, hidden |-> hidden]
    ELSE Injected

init ==
    /\ Idle
    /\ structures < MaxMounts
    /\ structures' = structures + 1
    /\ bound' = QuerySelector(structures')
    /\ textarea' = Regions(bound').textarea
    /\ height' = Regions(bound').height
    /\ gutter' = Regions(bound').gutter
    /\ outputs' = Regions(bound').outputs
    /\ scrollTop' = Regions(bound').scrollTop
    /\ hidden' = Regions(bound').hidden
    /\ focused' = (bound' = bound /\ focused)
    /\ commands' = <<>>
    /\ proto' = ObjectPrototype
    /\ UNCHANGED <<stack, outcome, toggled, host>>

---------------------------------------------------------------------------
\* processCommand

NotFoundPrefix == <<"No command found: ">>

Frame(cb, name, echoing, clearing) ==
    [cb |-> cb, pc |-> 1, name |-> name, echoing |-> echoing, clearing |-> clearing]

\* faulty variant of Cleared: processCommand never clears
Cleared_Never(clearing) ==
    [textarea |-> textarea, height |-> height, gutter |-> gutter]

\* if (clearing) this.clearText(): textarea, height and gutter before the lookup
Cleared(clearing) ==
    IF clearing THEN ClearText(textarea, height, gutter)
    ELSE [textarea |-> textarea, height |-> height, gutter |-> gutter]

\* faulty variant of EchoedOutputs: the name is not echoed before command()
EchoedOutputs_Late(outs, name, echoing) == outs

\* if (echoing) this.echo(name, { prefixed: true }): the log when command() is called
EchoedOutputs(outs, name, echoing) ==
    IF echoing THEN EchoOutputs(outs, name, "log", TRUE) ELSE outs

\* faulty variant of Propagated: command() is called and its value dropped
Propagated_Dropped(value) == Undefined

\* return command(): what processCommand hands to its caller
Propagated(value) == value

\* command(), called as a plain function (`this` is undefined in module code):
\* a registered callback starts running on top of `stk`; Object.prototype.toString
\* returns "[object Undefined]"; Function.prototype.toString throws a TypeError
\* on a `this` that is no function; calling a non-function throws a TypeError.
\* Nothing catches: a throw unwinds every frame.
Invoke(stk, command, name, echoing, clearing) ==
    CASE command.kind = "callback" ->
            /\ Len(stk) < MaxDepth
            /\ stack' = Append(stk, Frame(command.id, name, echoing, clearing))
            /\ UNCHANGED outcome
      [] command.kind = "builtin" /\ command.id = "Object.prototype.toString" ->
            /\ stack' = stk
            /\ outcome' = Returned(name, "builtin", Propagated(<<"[object Undefined]">>))
      [] OTHER ->
            /\ stack' = <<>>
            /\ outcome' = Threw(name)

\* processCommand(name, echoing, clearing), called with `stk` as the stack of
\* its caller, up to the start of the callback (or to its end when no callback runs)
Dispatch(stk, name, echoing, clearing) ==
    LET command == GetProperty(commands, proto, name) IN
    /\ textarea' = Cleared(clearing).textarea
    /\ height' = Cleared(clearing).height
    /\ gutter' = Cleared(clearing).gutter
    /\ IF Truthy(command)
       THEN /\ echoing => Len(outputs) < MaxLog
            /\ outputs' = EchoedOutputs(outputs, name, echoing)
            /\ scrollTop' = IF echoing THEN EchoScroll(outputs', scrollTop, TRUE)
                            ELSE scrollTop
            /\ Invoke(stk, command, name, echoing, clearing)
       ELSE /\ Len(outputs) < MaxLog
            /\ outputs' = EchoOutputs(outputs, NotFoundPrefix \o name, "log", FALSE)
            /\ scrollTop' = EchoScroll(outputs', scrollTop, TRUE)
            /\ stack' = stk
            /\ outcome' = Returned(name, "none", Undefined)
    /\ UNCHANGED <<hidden, commands, proto>>

processCommand(name, echoing, clearing) ==
    /\ Idle
    /\ Dispatch(stack, name, echoing, clearing)
    /\ UNCHANGED <<toggled, focused, mount, host>>

---------------------------------------------------------------------------
\* A running callback: the top frame executes its script, one call per step

Top == stack[Len(stack)]
Running == stack # <<>> /\ Top.pc <= Len(Script(Top.cb))
Instr == Script(Top.cb)[Top.pc]
Advance(stk) == [stk EXCEPT ![Len(stk)].pc = @ + 1]
Pop(stk) == SubSeq(stk, 1, Len(stk) - 1)

callbackEcho ==
    /\ Running
    /\ Instr.op = "echo"
    /\ Len(outputs) < MaxLog
    /\ outputs' = EchoOutputs(outputs, Instr.text, Instr.flavour, Instr.prefixed)
    /\ scrollTop' = EchoScroll(outputs', scrollTop, Instr.scrolling)
    /\ stack' = Advance(stack)
    /\ UNCHANGED <<textarea, height, gutter, hidden, commands, proto, outcome>>
    /\ UNCHANGED <<toggled, focused, mount, host>>

callbackClearOutputs ==
    /\ Running
    /\ Instr.op = "clearOutputs"
    /\ outputs' = <<>>
    /\ scrollTop' = 0
    /\ stack' = Advance(stack)
    /\ UNCHANGED <<textarea, height, gutter, hidden, commands, proto, outcome>>
    /\ UNCHANGED <<toggled, focused, mount, host>>

callbackSetText ==
    /\ Running
    /\ Instr.op = "setText"
    /\ textarea' = Instr.text
    /\ stack' = Advance(stack)
    /\ UNCHANGED <<height, gutter, outputs, scrollTop, hidden, commands, proto, outcome>>
    /\ UNCHANGED <<toggled, focused, mount, host>>

\* the callback calls processCommand: a nested dispatch
callbackProcessCommand ==
    /\ Running
    /\ Instr.op = "processCommand"
    /\ Dispatch(Advance(stack), Instr.name, Instr.echoing, Instr.clearing)
    /\ UNCHANGED <<toggled, focused, mount, host>>

\* the callback returns; processCommand returns its value to the caller
callbackReturn ==
    /\ stack # <<>>
    /\ ~Running
    /\ stack' = Pop(stack)
    /\ outcome' = Returned(Top.name, Top.cb, Propagated(ReturnOf(Top.cb)))
    /\ UNCHANGED <<textarea, height, gutter, outputs, scrollTop, hidden, commands, proto>>
    /\ UNCHANGED <<toggled, focused, mount, host>>

---------------------------------------------------------------------------
\* The host page's listeners (src/test/cdn/index.js).  A listener runs to
\* completion before the next event is delivered; the keydown listener that
\* dispatched goes on when processCommand has returned or thrown.

\* no listener is running
HostIdle == Idle /\ pending = "none"

\* s with the character c put in after its first i characters
InsertAt(s, i, c) == SubSeq(s, 1, i) \o <<c>> \o SubSeq(s, i + 1, Len(s))

\* faulty variant of InputListener: the listener scrolls and does not resize
InputListener_NoResize(value) ==
    [height |-> height, gutter |-> gutter, scrollTop |-> Len(outputs)]

\* the textarea's input listener, run on the edited value:
\* autoResizeAll() then scrollToMonitorBottom()
InputListener(value) ==
    [height |-> ScrollHeight(value), gutter |-> GutterText(value),
     scrollTop |-> Len(outputs)]

\* the user edits the text surface (types, deletes, pastes): the value is
\* text, and the input event runs the input listener
input(text) ==
    /\ HostIdle
    /\ textarea' = text
    /\ height' = InputListener(text).height
    /\ gutter' = InputListener(text).gutter
    /\ scrollTop' = InputListener(text).scrollTop
    /\ event' = InputEvent
    /\ UNCHANGED <<outputs, hidden, commands, proto, stack, outcome,
                   toggled, focused, mount, pending>>

\* event.key === 'Enter' && !event.shiftKey
Submits(key, mods) == key = "Enter" /\ "shift" \notin mods

\* keydown on the text surface with Enter.  Without Shift: preventDefault, read
\* the buffer, return if it is empty, else processCommand(buffer) with the
\* default echoing and clearing.  With Shift the listener does nothing, the
\* line break is inserted at the caret and the input listener runs.
keydownEnter(mods) ==
    /\ HostIdle
    /\ event' = KeyEvent("Enter", mods)
    /\ IF Submits("Enter", mods)
       THEN LET command == getText(FALSE, FALSE) IN
            IF command = <<>>
            THEN UNCHANGED <<textarea, height, gutter, outputs, scrollTop, hidden,
                             commands, proto, stack, outcome, pending>>
            ELSE /\ Dispatch(stack, command, TRUE, TRUE)
                 /\ pending' = "result"
       ELSE /\ Len(textarea) < MaxLen
            /\ \E i \in 0..Len(textarea) :
                  /\ textarea' = InsertAt(textarea, i, NL)
                  /\ height' = InputListener(textarea').height
                  /\ gutter' = InputListener(textarea').gutter
                  /\ scrollTop' = InputListener(textarea').scrollTop
            /\ UNCHANGED <<outputs, hidden, commands, proto, stack, outcome, pending>>
    /\ UNCHANGED <<toggled, focused, mount>>

ResultPrefix == <<"Result: ">>

\* the keydown listener after processCommand: nothing if it threw (the async
\* listener's promise rejects); else if (result !== undefined) echo(`Result: ${result}`)
keydownResult ==
    /\ Idle
    /\ pending = "result"
    /\ pending' = "none"
    /\ IF outcome.kind = "return" /\ outcome.value # Undefined
       THEN /\ Len(outputs) < MaxLog
            /\ outputs' = EchoOutputs(outputs, ResultPrefix \o outcome.value, "log", FALSE)
            /\ scrollTop' = EchoScroll(outputs', scrollTop, TRUE)
       ELSE UNCHANGED <<outputs, scrollTop>>
    /\ UNCHANGED <<textarea, height, gutter, hidden, commands, proto, stack, outcome,
                   toggled, focused, mount, event>>

\* keydown with Escape, whatever the modifiers: clearText()
keydownEscape(mods) ==
    /\ HostIdle
    /\ event' = KeyEvent("Escape", mods)
    /\ textarea' = ClearText(textarea, height, gutter).textarea
    /\ height' = ClearText(textarea, height, gutter).height
    /\ gutter' = ClearText(textarea, height, gutter).gutter
    /\ UNCHANGED <<outputs, scrollTop, hidden, commands, proto, stack, outcome,
                   toggled, focused, mount, pending>>

\* the document's keydown listener on Control + /: toggle(), then focus()
\* if the widget is not hidden
keydownSlash ==
    /\ HostIdle
    /\ event' = KeyEvent("/", {"ctrl"})
    /\ hidden' = Toggle(hidden, "absent")
    /\ toggled' = <<ToggleReturn(hidden, "absent")>>
    /\ focused' = IF ~ToggleReturn(hidden, "absent") THEN TRUE ELSE focused
    /\ UNCHANGED <<textarea, height, gutter, outputs, scrollTop, commands, proto,
                   stack, outcome, mount, pending>>

---------------------------------------------------------------------------
\* What the host passes in

Names == {<<"a">>, <<"b">>, <<"c">>, <<>>, ToStringName, ProtoName}

\* registrations the host makes
AddInputs ==
    {<<<<"a">>, "ping">>, <<<<"b">>, "nest">>, <<<<"c">>, "deep">>,
     <<<<>>, "ping">>, <<ProtoName, "clear">>}

UpdateInputs ==
    {(<<"a">> :> "say") @@ (<<"b">> :> "nest"),
     (<<"a">> :> "ping"),
     (<<>> :> "ping") @@ (ProtoName :> "clear")}

Texts == Strs \cup {<<" ">>}
Flavours == {"log", "warn"}
Forces == {"absent", "true", "false"}

\* Every method with every input, by the host or by a running callback, and
\* the host page's listeners
Next ==
    \/ \E m \in UpdateInputs : updateCommands(m)
    \/ \E n \in Names, f \in Callbacks : addCommand(n, f)
    \/ \E t \in Texts \cup {Undefined}, f \in Flavours, sc, pf \in BOOLEAN :
          echo(t, f, sc, pf)
    \/ scrollToMonitorBottom
    \/ \E t \in Texts : setText(t)
    \/ clearText
    \/ clearOutputs
    \/ autoResizeTextarea
    \/ autoResizeGutter
    \/ autoResizeAll
    \/ \E f \in Forces : toggle(f)
    \/ focus
    \/ init
    \/ \E n \in Names, e, c \in BOOLEAN : processCommand(n, e, c)
    \/ callbackEcho
    \/ callbackClearOutputs
    \/ callbackSetText
    \/ callbackProcessCommand
    \/ callbackReturn
    \/ \E t \in Texts : input(t)
    \/ \E m \in {{}, {"shift"}, {"ctrl"}, {"alt"}, {"meta"}} : keydownEnter(m)
    \/ keydownResult
    \/ keydownEscape({})
    \/ keydownSlash

Spec == Init /\ [][Next]_vars

\* Spec is too wide to explore in full: the properties are checked under
\* restrictions of it, each with every input of the methods it is about.

\* The registry and dispatch: every registration, every name, every flag
NextDispatch ==
    \/ \E m \in UpdateInputs : updateCommands(m)
    \/ \E p \in AddInputs : addCommand(p[1], p[2])
    \/ setText(<<"a", NL>>)
    \/ clearOutputs
    \/ \E n \in Names, e, c \in BOOLEAN :
          Len(outputs) <= MaxBacklog /\ processCommand(n, e, c)
    \/ callbackEcho
    \/ callbackClearOutputs
    \/ callbackProcessCommand
    \/ callbackReturn

SpecDispatch == Init /\ [][NextDispatch]_vars

\* The textarea and its gutter: every public operation, every text
GutterAdds == {<<<<"a">>, "say">>, <<<<"a">>, "fill">>}

NextGutter ==
    \/ \E p \in GutterAdds : addCommand(p[1], p[2])
    \/ \E f \in Flavours : Len(outputs) < MaxBacklog /\ echo(<<"a">>, f, TRUE, FALSE)
    \/ \E t \in Texts : setText(t)
    \/ clearText
    \/ clearOutputs
    \/ autoResizeTextarea
    \/ autoResizeGutter
    \/ autoResizeAll
    \/ \E f \in Forces : toggle(f)
    \/ \E n \in {<<"a">>, <<"b">>}, e, c \in BOOLEAN :
          Len(outputs) < MaxBacklog /\ processCommand(n, e, c)
    \/ callbackEcho
    \/ callbackSetText
    \/ callbackReturn

SpecGutter == Init /\ [][NextGutter]_vars

\* echo: every text, flavour and option, by the host and by a callback
NextEcho ==
    \/ addCommand(<<"a">>, "say")
    \/ \E t \in Texts \cup {Undefined}, f \in Flavours, sc, pf \in BOOLEAN :
          Len(outputs) < MaxBacklog /\ echo(t, f, sc, pf)
    \/ scrollToMonitorBottom
    \/ clearOutputs
    \/ \E e, c \in BOOLEAN :
          Len(outputs) <= MaxBacklog /\ processCommand(<<"a">>, e, c)
    \/ callbackEcho
    \/ callbackReturn

SpecEcho == Init /\ [][NextEcho]_vars

\* The Output Log: echoes of every flavour and option onto a log that holds
\* entries, the operations that leave the log alone, and dispatches that nest
\* and that clear
LogAdds == {<<<<"a">>, "say">>, <<<<"b">>, "nest">>, <<<<"c">>, "clear">>}
LogTexts == {<<"a">>}

NextLog ==
    \/ \E p \in LogAdds : addCommand(p[1], p[2])
    \/ \E t \in LogTexts, f \in Flavours, sc, pf \in BOOLEAN :
          Len(outputs) <= MaxBacklog /\ echo(t, f, sc, pf)
    \/ scrollToMonitorBottom
    \/ clearText
    \/ clearOutputs
    \/ toggle("absent")
    \/ \E n \in {<<"a">>, <<"b">>, <<"c">>}, e \in BOOLEAN :
          Len(outputs) <= MaxBacklog /\ processCommand(n, e, FALSE)
    \/ callbackEcho
    \/ callbackClearOutputs
    \/ callbackProcessCommand
    \/ callbackReturn

SpecLog == Init /\ [][NextLog]_vars

\* The mount point and the registry: init again on the same parent, every
\* way to register, and every other public operation
MountAdds == {<<<<"a">>, "ping">>, <<<<"a">>, "say">>, <<ProtoName, "ping">>}
MountUpdates == {(<<"a">> :> "say") @@ (<<"b">> :> "ping")}

NextMount ==
    \/ init
    \/ \E p \in MountAdds : addCommand(p[1], p[2])
    \/ \E m \in MountUpdates : updateCommands(m)
    \/ Len(outputs) < MaxBacklog /\ echo(<<"a">>, "log", TRUE, FALSE)
    \/ setText(<<"a">>)
    \/ clearText
    \/ clearOutputs
    \/ autoResizeAll
    \/ toggle("absent")
    \/ focus
    \/ \E n \in {<<"a">>, <<"b">>, ProtoName}, e, c \in BOOLEAN :
          Len(outputs) < MaxBacklog /\ processCommand(n, e, c)
    \/ callbackEcho
    \/ callbackReturn

SpecMount == Init /\ [][NextMount]_vars

\* The host page: the registrations of an embedding application, then typing
\* and the keys the listeners react to
Modifiers == {{}, {"shift"}, {"ctrl"}, {"alt"}, {"meta"}}
HostCommands ==
    (<<"a">> :> "ping") @@ (<<"b">> :> "nest") @@ (<<"c">> :> "clear")
HostTexts == {<<>>, <<"a">>, <<"b">>, <<"c">>, <<"a", NL>>, ToStringName}

NextHost ==
    \/ HostIdle /\ updateCommands(HostCommands)
    \/ HostIdle /\ addCommand(<<"a">>, "say")
    \/ \E t \in HostTexts : input(t)
    \/ HostIdle /\ clearOutputs
    \/ \E m \in Modifiers : Len(outputs) < MaxBacklog /\ keydownEnter(m)
    \/ keydownResult
    \/ keydownEscape({})
    \/ keydownSlash
    \/ callbackEcho
    \/ callbackClearOutputs
    \/ callbackProcessCommand
    \/ callbackReturn

SpecHost == Init /\ [][NextHost]_vars

---------------------------------------------------------------------------
\* Vocabulary of the properties

\* n was registered by addCommand or updateCommands since init
Registered(n) ==
    \/ n \in DOMAIN commands
    \/ n = ProtoName /\ proto # ObjectPrototype

\* the callback n is registered with
RegisteredCallback(n) == IF n = ProtoName THEN proto ELSE commands[n]

\* the step is a call processCommand(n, e, c), by the host or by a running callback
CallStep(n, e, c) ==
    \/ processCommand(n, e, c)
    \/ /\ callbackProcessCommand
       /\ Instr.name = n /\ Instr.echoing = e /\ Instr.clearing = c

\* the stack the called processCommand returns to
CallerStack == IF Idle THEN stack ELSE Advance(stack)

Last(seq) == seq[Len(seq)]

\* sub occurs in text
Contains(text, sub) ==
    \E i \in 0..(Len(text) - Len(sub)) : SubSeq(text, i + 1, i + Len(sub)) = sub

\* seq ends with tail
EndsWith(seq, tail) ==
    /\ Len(tail) <= Len(seq)
    /\ SubSeq(seq, Len(seq) - Len(tail) + 1, Len(seq)) = tail

\* old is a prefix of new
IsPrefix(old, new) == Len(old) <= Len(new) /\ SubSeq(new, 1, Len(old)) = old

NumBreaks(s) == Cardinality({i \in 1..Len(s) : s[i] = NL})

\* max(1, number of lines of s)
LineCount(s) == IF NumBreaks(s) + 1 >= 1 THEN NumBreaks(s) + 1 ELSE 1

MarkerCount == Len(Markers(gutter))

\* "$  n" as a log entry
EchoEntry(n) == [text |-> Prompt \o n, flavour |-> "log"]

---------------------------------------------------------------------------
\* the condition C1 puts on every step
C1_Step ==
    /\ \A n \in Names, e, c \in BOOLEAN :
          (Registered(n) /\ CallStep(n, e, c)) =>
              stack' = Append(CallerStack, Frame(RegisteredCallback(n), n, e, c))
    /\ callbackReturn =>
          /\ stack' = Pop(stack)
          /\ outcome' = Returned(Top.name, Top.cb, ReturnOf(Top.cb))

\* C1: for a registered name n with callback f and any echoing and clearing,
\* processCommand(n) starts f, the callback registered for n at that moment,
\* once (exactly one new frame, running f from its first instruction, on top
\* of the caller's stack) and starts nothing else; when that frame ends,
\* the caller receives f's return value unchanged.
C1_InvokesRegisteredOnce == [][C1_Step]_vars

\* processCommand('a') with a registered as ping has returned 'pong' to the host
C1_Witness ==
    /\ Idle
    /\ outcome = Returned(<<"a">>, "ping", Pong)
    /\ Registered(<<"a">>) /\ RegisteredCallback(<<"a">>) = "ping"

\* C2 (as claimed): for a name n that was not registered, processCommand(n)
\* invokes nothing and appends exactly one Output Log entry, whose text contains n.
C2_Claim ==
    [][\A n \in Names, e, c \in BOOLEAN :
          (~Registered(n) /\ CallStep(n, e, c)) =>
              /\ stack' = CallerStack
              /\ outcome'.cb = "none"
              /\ Len(outputs') = Len(outputs) + 1
              /\ IsPrefix(outputs, outputs')
              /\ Contains(Last(outputs').text, n)]_vars

\* C3 (as claimed): for a name n that was never registered, processCommand(n)
\* completes without throwing and returns undefined.
C3_Claim ==
    [][\A n \in Names, e, c \in BOOLEAN :
          (~Registered(n) /\ CallStep(n, e, c)) =>
              outcome' = Returned(n, "none", Undefined)]_vars

\* what echo shows for a name: a blank name is shown as one non-breaking space
Shown(n) == IF TrimIsEmpty(n) THEN <<NBSP>> ELSE n

\* C4 (as claimed): processCommand(n) with n registered appends, when echoing,
\* exactly the entry "$  n" with style log before the callback starts, and
\* appends nothing when not echoing.
C4_Claim ==
    [][\A n \in Names, e, c \in BOOLEAN :
          (Registered(n) /\ CallStep(n, e, c)) =>
              /\ outputs' = IF e THEN Append(outputs, EchoEntry(n)) ELSE outputs
              /\ Last(stack').pc = 1]_vars

\* C4 (amended): the echoed entry is "$  " followed by the name, or by one
\* non-breaking space when the name is empty or blank; it is the last entry
\* of the log when the callback is about to run its first instruction; with
\* echoing off the log is as it was.
C4_EchoBeforeInvoke ==
    [][\A n \in Names, e, c \in BOOLEAN :
          (Registered(n) /\ CallStep(n, e, c)) =>
              /\ outputs' = IF e THEN Append(outputs, EchoEntry(Shown(n))) ELSE outputs
              /\ Last(stack').pc = 1]_vars

\* the callback registered under the empty name is about to start, after the echo
C4_Witness ==
    /\ stack # <<>>
    /\ Top.pc = 1 /\ Top.echoing /\ Top.name = <<>>
    /\ outputs # <<>>
    /\ Last(outputs) = EchoEntry(<<NBSP>>)

\* C5: every processCommand(n, echoing, clearing = TRUE) has emptied the
\* textarea and recomputed the gutter to its one prompt marker by the time the
\* lookup has had its effect: when the callback of a registered n is about to
\* start, and when the dispatch of an unregistered n has ended.
C5_ClearBeforeLookup ==
    [][\A n \in Names, e \in BOOLEAN :
          CallStep(n, e, TRUE) =>
              /\ textarea' = <<>>
              /\ Markers(gutter') = <<"$">>
              /\ Registered(n) => Last(stack').pc = 1
              /\ ~Registered(n) => stack' = CallerStack]_vars

\* a callback dispatched with clearing is about to start on an empty textarea
C5_Witness ==
    /\ stack # <<>>
    /\ Top.pc = 1 /\ Top.clearing
    /\ textarea = <<>>
    /\ gutter = GutterText(<<>>)
    /\ height = ScrollHeight(<<>>)

\* the entries one dispatch of n writes, by the structure of the callbacks:
\* the echo of the name, then what the callback's calls write, in script order
RECURSIVE DispatchEntries(_, _, _)
RECURSIVE ScriptEntries(_, _, _)
DispatchEntries(n, e, fuel) ==
    IF fuel = 0 THEN <<>>
    ELSE IF Registered(n)
         THEN (IF e THEN <<EchoEntry(Shown(n))>> ELSE <<>>)
              \o ScriptEntries(Script(RegisteredCallback(n)), 1, fuel)
         ELSE <<[text |-> NotFoundPrefix \o n, flavour |-> "log"]>>
ScriptEntries(script, i, fuel) ==
    IF i > Len(script) THEN <<>>
    ELSE (CASE script[i].op = "echo" ->
                  <<[text |-> script[i].text, flavour |-> script[i].flavour]>>
            [] script[i].op = "processCommand" ->
                  DispatchEntries(script[i].name, script[i].echoing, fuel - 1)
            [] OTHER -> <<>>)
         \o ScriptEntries(script, i + 1, fuel)

\* the condition C6 puts on every step
C6_Step ==
    /\ callbackProcessCommand =>
          /\ Instr.clearing => (textarea' = <<>> /\ Markers(gutter') = <<"$">>)
          /\ Registered(Instr.name) =>
                /\ outputs' = IF Instr.echoing
                              THEN Append(outputs, EchoEntry(Shown(Instr.name)))
                              ELSE outputs
                /\ stack' = Append(Advance(stack),
                                   Frame(RegisteredCallback(Instr.name), Instr.name,
                                         Instr.echoing, Instr.clearing))
    /\ (stack # <<>> /\ ~callbackClearOutputs) => IsPrefix(outputs, outputs')
    /\ (callbackReturn /\ Top.cb # "clear") =>
          EndsWith(outputs, DispatchEntries(Top.name, Top.echoing, MaxDepth))

\* C6: a dispatch made by a running callback clears before its lookup and
\* echoes before it invokes, and starts its callback once; while callbacks
\* run (none of them clearing the log) entries are only appended; and when a
\* callback ends, the log ends with: the echo of its name, then its entries
\* and those of its nested dispatches, in the order of its script.
C6_ReentrantDispatch == [][C6_Step]_vars

\* processCommand('b') has ended: b's callback echoed, dispatched a, echoed again
C6_Witness ==
    /\ Idle
    /\ outcome = Returned(<<"b">>, "nest", <<"n">>)
    /\ outputs = <<EchoEntry(<<"b">>), [text |-> <<"p">>, flavour |-> "log"],
                   EchoEntry(<<"a">>), [text |-> <<"x">>, flavour |-> "info"],
                   [text |-> <<"q">>, flavour |-> "warn"]>>

\* C7 (as claimed): in every reachable state the gutter marker count equals
\* max(1, number of lines of the Input Buffer).
C7_Claim == MarkerCount = LineCount(textarea)

\* the step is a setText, by the host or by a running callback
SetTextStep == (\E t \in Texts : setText(t)) \/ callbackSetText

\* the condition C7, as amended, puts on every step
C7_Step ==
    /\ gutter' = gutter \/ ~SetTextStep
    /\ \/ Len(Markers(gutter')) = LineCount(textarea')
       \/ /\ ~(\/ autoResizeGutter \/ autoResizeAll \/ clearText
               \/ \E n \in Names, e \in BOOLEAN : CallStep(n, e, TRUE))
          /\ (MarkerCount # LineCount(textarea) \/ SetTextStep)

\* C7 (amended): setText leaves the gutter as it was; autoResizeGutter,
\* autoResizeAll, clearText and a clearing processCommand each end with the
\* marker count equal to max(1, lines of the buffer); and every step that is
\* not a setText keeps that equality once it holds.
C7_GutterFollowsResize == [][C7_Step]_vars

\* a two-line buffer whose gutter a resize has brought to two markers
C7_Witness ==
    /\ NumBreaks(textarea) = 1
    /\ MarkerCount = 2
    /\ Idle

\* the condition C8 puts on every step
C8_Step ==
    (autoResizeGutter \/ autoResizeAll) =>
        LET m == Markers(gutter') IN
        /\ Len(m) = LineCount(textarea)
        /\ Len(m) = NumBreaks(textarea) + 1
        /\ m[1] = "$"
        /\ \A i \in 2..Len(m) : m[i] = BULLET

\* C8: whatever text s setText has put in the buffer (empty, ending in a line
\* break, ...), autoResizeGutter() and autoResizeAll() leave exactly
\* (line breaks of s) + 1 markers: a prompt marker, then continuation markers.
C8_GutterAfterResize == [][C8_Step]_vars

\* the buffer holds two line breaks and nothing else; the gutter has three markers
C8_Witness ==
    /\ textarea = <<NL, NL>>
    /\ Markers(gutter) = <<"$", BULLET, BULLET>>

\* the condition C9 puts on every step
C9_Step == clearText => (textarea' = <<>> /\ Len(Markers(gutter')) = 1)

\* C9: clearText() leaves the Input Buffer empty and one gutter marker,
\* whatever the buffer and the gutter were.
C9_ClearText == [][C9_Step]_vars

\* an empty buffer under a recomputed one-marker gutter and a one-row textarea
C9_Witness ==
    /\ Idle
    /\ textarea = <<>>
    /\ gutter = <<"$", " ", " ", NL>>
    /\ height = 1
    /\ outcome.kind = "none"

\* the callback a name is registered with, "none" for a name not registered
RegistryView(own, pr, n) ==
    IF n = ProtoName THEN (IF pr = ObjectPrototype THEN "none" ELSE pr)
    ELSE IF n \in DOMAIN own THEN own[n] ELSE "none"

\* the condition C10 puts on every step
C10_Step ==
    /\ \A m \in UpdateInputs :
          updateCommands(m) =>
              \A n \in Names :
                  RegistryView(commands', proto', n) =
                      IF n \in DOMAIN m THEN m[n] ELSE RegistryView(commands, proto, n)
    /\ \A p \in AddInputs :
          addCommand(p[1], p[2]) =>
              \A n \in Names :
                  RegistryView(commands', proto', n) =
                      IF n = p[1] THEN p[2] ELSE RegistryView(commands, proto, n)
    /\ \A n \in Names :
          RegistryView(commands, proto, n) # "none" =>
              RegistryView(commands', proto', n) # "none"

\* C10: updateCommands(M) maps every name of M to M's callback and leaves
\* every other name as it was; addCommand(name, f) maps name to f and leaves
\* every other name as it was; no step unregisters a name.
C10_RegistryMerge == [][C10_Step]_vars

\* updateCommands({a: say, b: nest}) then updateCommands({a: ping}):
\* a is ping, b is still nest
C10_Witness ==
    /\ DOMAIN commands = {<<"a">>, <<"b">>}
    /\ commands[<<"a">>] = "ping"
    /\ commands[<<"b">>] = "nest"

\* the text is absent, empty or whitespace-only
Blank(t) == t = Undefined \/ \A i \in 1..Len(t) : t[i] \in {" ", NL, NBSP}

\* the step is an echo call, by the host or by a running callback
EchoStep ==
    \/ \E t \in Texts \cup {Undefined}, f \in Flavours, sc, pf \in BOOLEAN : echo(t, f, sc, pf)
    \/ callbackEcho

\* the condition C11 puts on every step
C11_Step ==
    /\ \A t \in Texts \cup {Undefined}, f \in Flavours, sc, pf \in BOOLEAN :
          echo(t, f, sc, pf) =>
              /\ Len(outputs') = Len(outputs) + 1
              /\ Last(outputs').text # <<>>
              /\ Last(outputs').text =
                    (IF pf THEN <<"$", " ", " ">> ELSE <<>>)
                    \o (IF Blank(t) THEN <<NBSP>> ELSE t)
    /\ callbackEcho =>
          /\ Len(outputs') = Len(outputs) + 1
          /\ Last(outputs').text # <<>>
          /\ Last(outputs').text =
                (IF Instr.prefixed THEN <<"$", " ", " ">> ELSE <<>>)
                \o (IF Blank(Instr.text) THEN <<NBSP>> ELSE Instr.text)

\* C11: echo(text, options) with text absent, empty or whitespace-only appends
\* an entry whose content is one non-breaking space, after "$  " when prefixed,
\* and never an entry with empty content; with any other text the content is
\* text, after "$  " when prefixed.
C11_EchoBlank == [][C11_Step]_vars

\* echo('\n', {flavour: 'warn', prefixed: true}) was logged as the prompt
\* marker and a non-breaking space
C11_Witness ==
    /\ Idle
    /\ outcome.kind = "none"
    /\ outputs = <<[text |-> <<"$", " ", " ", NBSP>>, flavour |-> "warn"]>>

\* the step is a clearOutputs call, by the host or by a running callback
ClearOutputsStep == clearOutputs \/ callbackClearOutputs

\* the condition C12 puts on every step
C12_Step ==
    /\ \/ IsPrefix(outputs, outputs')
       \/ ClearOutputsStep /\ outputs' = <<>>
    /\ EchoStep =>
          /\ Len(outputs') = Len(outputs) + 1
          /\ SubSeq(outputs', 1, Len(outputs)) = outputs
    /\ ClearOutputsStep => outputs' = <<>>

\* C12: every step either keeps the log as a prefix of the new log or is a
\* clearOutputs() that empties it; an echo call, whatever its flavour and
\* scrolling option and also inside a nested dispatch, adds exactly one entry
\* at the end.
C12_AppendOnly == [][C12_Step]_vars

\* a log of two entries was emptied by a dispatched callback, and an entry
\* echoed without scrolling was appended after that
C12_Witness ==
    /\ Idle
    /\ outcome = Returned(<<"c">>, "clear", Undefined)
    /\ Len(outputs) = 1
    /\ scrollTop = 0
    /\ outputs[1].flavour = "warn"

\* the condition C13 puts on every step
C13_Step ==
    /\ toggle("absent") => (hidden' = ~hidden /\ toggled' = <<hidden'>>)
    /\ toggle("true") => (hidden' = TRUE /\ toggled' = <<TRUE>>)
    /\ toggle("false") => (hidden' = FALSE /\ toggled' = <<FALSE>>)

\* C13: the widget is visible after its first mount; toggle() sets the hidden
\* state to the negation of what it was and returns the new state; toggle(force)
\* with a boolean force sets the hidden state to force and returns force,
\* whatever the state was.
C13_Toggle == (~hidden /\ toggled = <<>>) /\ [][C13_Step]_vars

\* the widget is visible again and the last toggle call returned false
C13_Witness ==
    /\ Idle
    /\ ~hidden
    /\ toggled = <<FALSE>>

\* what C17 says a setText step leaves as it was
C17_Frame ==
    /\ gutter' = gutter
    /\ Markers(gutter') = Markers(gutter)
    /\ height' = height
    /\ outputs' = outputs
    /\ commands' = commands
    /\ proto' = proto
    /\ hidden' = hidden

\* the condition C17 puts on every step
C17_Step ==
    /\ \A t \in Texts : setText(t) => (textarea' = t /\ C17_Frame)
    /\ callbackSetText => (textarea' = Instr.text /\ C17_Frame)

\* C17: setText(s) makes s the Input Buffer, for every s, and resizes
\* nothing: the gutter and its markers, the height of the text surface, the
\* Output Log, the registry and the hidden state are as they were.
C17_SetTextFrame == [][C17_Step]_vars

\* a two-line buffer set on a widget that was never resized
C17_Witness ==
    /\ Idle
    /\ textarea = <<"a", NL>>
    /\ gutter = InjectedGutter
    /\ height = 0

\* C14 (as claimed): after every init(mountPoint) the handles are bound to the
\* regions of the structure that call created and appended, also when an
\* earlier init appended a structure under the same mount point; the registry
\* is empty after init.
C14_Claim ==
    [][init =>
          /\ structures' = structures + 1
          /\ bound' = structures'
          /\ textarea' = Injected.textarea
          /\ gutter' = Injected.gutter
          /\ outputs' = Injected.outputs
          /\ hidden' = Injected.hidden
          /\ commands' = <<>>
          /\ proto' = ObjectPrototype]_vars

\* the step registers: addCommand or updateCommands
RegisterStep ==
    \/ \E n \in Names, f \in Callbacks : addCommand(n, f)
    \/ \E m \in UpdateInputs \cup MountUpdates : updateCommands(m)

\* the condition C18 puts on every step
C18_Step ==
    /\ (~RegisterStep /\ ~init) =>
          /\ commands' = commands
          /\ proto' = proto
          /\ \A n \in Names :
                RegistryView(commands', proto', n) = RegistryView(commands, proto, n)
    /\ ~init =>
          \A n \in Names :
              RegistryView(commands, proto, n) # "none" =>
                  RegistryView(commands', proto', n) # "none"
    /\ \A p \in MountAdds :
          addCommand(p[1], p[2]) =>
              /\ RegistryView(commands', proto', p[1]) = p[2]
              /\ \A n \in Names \ {p[1]} :
                    RegistryView(commands', proto', n) = RegistryView(commands, proto, n)
    /\ init => \A n \in Names : RegistryView(commands', proto', n) = "none"

\* C18: a registered name stays registered, with the callback of its latest
\* registration, across echo, clearOutputs, setText, clearText, resize,
\* toggle, focus and processCommand (getText changes nothing at all); only
\* addCommand, updateCommands and init change the registry, and init empties it.
C18_RegistryKept == [][C18_Step]_vars

\* a was registered as ping, then as say; after a second init, a dispatch of a,
\* a toggle and a focus, a is say
C18_Witness ==
    /\ Idle
    /\ structures = 2
    /\ RegistryView(commands, proto, <<"a">>) = "say"
    /\ outcome = Returned(<<"a">>, "say", Undefined)
    /\ hidden /\ focused
    /\ outputs # <<>>

\* C15 (as claimed): the keyboard dispatches exactly when Enter comes without
\* a modifier key on a non-empty buffer, and then the buffer's content is the
\* dispatched name; Enter on an empty buffer, and Enter with Shift, Control,
\* Alt or Meta, dispatches nothing, starts no callback and leaves the log as
\* it was.
C15_Claim ==
    [][\A m \in Modifiers :
          keydownEnter(m) =>
              IF m = {} /\ textarea # <<>>
              THEN /\ pending' = "result"
                   /\ IF stack' # <<>> THEN Last(stack').name = textarea
                      ELSE outcome'.name = textarea
              ELSE /\ pending' = "none"
                   /\ stack' = stack
                   /\ outcome' = outcome
                   /\ outputs' = outputs]_vars

\* C16 (as claimed): when the Enter listener goes on after its dispatch, it
\* appends "Result: {value}" as the last entry exactly when a registered
\* callback was dispatched and returned a value other than undefined; for an
\* unknown command, a callback that returns nothing, or a throw, it appends
\* nothing.
C16_Claim ==
    [][keydownResult =>
          IF /\ outcome.kind = "return"
             /\ outcome.cb \in Callbacks
             /\ outcome.value # Undefined
          THEN outputs' = Append(outputs, [text |-> <<"Result: ">> \o outcome.value,
                                           flavour |-> "log"])
          ELSE outputs' = outputs]_vars

\* C19: with the host's listeners (an edit runs the input listener, Enter
\* dispatches, Shift+Enter breaks the line, Escape clears, Control+/ toggles)
\* and callbacks that do not call setText, whenever no listener is running the
\* gutter holds max(1, lines of the Input Buffer) markers.
C19_GutterInSync == HostIdle => MarkerCount = LineCount(textarea)

\* Shift+Enter after "a": a second line, and a second marker in the gutter
C19_Witness ==
    /\ HostIdle
    /\ event = KeyEvent("Enter", {"shift"})
    /\ textarea = <<"a", NL>>
    /\ Markers(gutter) = <<"$", BULLET>>

====
